---------------------------- MODULE Spec2Model ----------------------------
(***************************************************************************)
(* Model of the Telegram -> LuluStream relay bot (src/bot.py) and of its   *)
(* Flask webhook entry point (src/api/webhook.py).                         *)
(*                                                                         *)
(* Optional values (dict.get results, Optional[...]) are sequences of      *)
(* length 0 (None / key absent) or 1 (<<v>>, the value v).                 *)
(***************************************************************************)
EXTENDS Integers, Sequences, FiniteSets

None == <<>>
Some(v) == <<v>>

\* Python truthiness of an optional string / number: None, "" and 0 are falsy.
TruthyStr(x) == x # None /\ x[1] # ""
TruthyNum(x) == x # None /\ x[1] # 0

\* The same for a text kept as a sequence of characters ("" is <<>>).
TruthyText(x) == x # None /\ x[1] # <<>>

(***************************************************************************)
(* Bounds of the model.                                                    *)
(***************************************************************************)
MaxFormats == 3     \* longest format list handed to the selector
MaxTitle == 3       \* longest title handed to _escape_markdown_v2
MaxText == 2        \* longest message text of an update

(***************************************************************************)
(* _escape_markdown_v2 (src/bot.py:45-57).  A text is a sequence of        *)
(* one-character strings.                                                  *)
(***************************************************************************)
Backslash == "\\"

\* The grave accent cannot be written in a string of this language; the token
\* "grave" stands for that one character.
replace_chars ==
    {"_", "*", "[", "]", "(", ")", "~", "grave", ">", "#", "+", "-", "=", "|",
     "{", "}", ".", "!"}

RECURSIVE _escape_markdown_v2(_)
_escape_markdown_v2(text) ==
    IF text = <<>> THEN <<>>
    ELSE (IF Head(text) \in replace_chars
             THEN <<Backslash, Head(text)>>
             ELSE <<Head(text)>>) \o _escape_markdown_v2(Tail(text))

\* MarkdownV2 reading of an escaped text: a backslash makes the character
\* after it literal and is itself dropped.
RECURSIVE StripEscapes(_)
StripEscapes(s) ==
    IF s = <<>> THEN <<>>
    ELSE IF Head(s) = Backslash
         THEN (IF Len(s) = 1 THEN <<>>
               ELSE <<s[2]>> \o StripEscapes(Tail(Tail(s))))
         ELSE <<Head(s)>> \o StripEscapes(Tail(s))

(***************************************************************************)
(* select_best_direct_format (src/bot.py:60-83).                           *)
(***************************************************************************)
NotADict ==
    [isdict |-> FALSE, url |-> None, vcodec |-> None, height |-> None,
     tbr |-> None, filesize |-> None, filesize_approx |-> None]

OrZero(x) == IF TruthyNum(x) THEN x[1] ELSE 0

\* line 73: url and vcodec and vcodec != "none"
IsCandidate(f) ==
    /\ f.isdict
    /\ TruthyStr(f.url)
    /\ TruthyStr(f.vcodec)
    /\ f.vcodec # Some("none")

\* lines 75-78: the normalised (height, tbr, filesize) of a candidate
FilesizeOf(f) ==
    IF TruthyNum(f.filesize) THEN f.filesize[1] ELSE OrZero(f.filesize_approx)

SortKey(f) == <<OrZero(f.height), OrZero(f.tbr), FilesizeOf(f)>>

\* tuple comparison of two sort keys
KeyLess(a, b) ==
    \/ a[1] < b[1]
    \/ a[1] = b[1] /\ a[2] < b[2]
    \/ a[1] = b[1] /\ a[2] = b[2] /\ a[3] < b[3]

\* lines 67-78: positions of the candidates, in input order
RECURSIVE CandidatesFrom(_, _)
CandidatesFrom(formats, i) ==
    IF i > Len(formats) THEN <<>>
    ELSE (IF IsCandidate(formats[i]) THEN <<i>> ELSE <<>>)
             \o CandidatesFrom(formats, i + 1)

\* A faulty variant of InsertDesc: an equal key goes in front (an unstable sort).
RECURSIVE InsertDescUnstable(_, _, _)
InsertDescUnstable(formats, sorted, i) ==
    IF sorted = <<>> THEN <<i>>
    ELSE IF KeyLess(SortKey(formats[i]), SortKey(formats[Head(sorted)]))
         THEN <<Head(sorted)>> \o InsertDescUnstable(formats, Tail(sorted), i)
         ELSE <<i>> \o sorted

\* line 82: list.sort(key=..., reverse=True) is stable: of two equal keys
\* the earlier one stays in front.
RECURSIVE InsertDesc(_, _, _)
InsertDesc(formats, sorted, i) ==
    IF sorted = <<>> THEN <<i>>
    ELSE IF KeyLess(SortKey(formats[Head(sorted)]), SortKey(formats[i]))
         THEN <<i>> \o sorted
         ELSE <<Head(sorted)>> \o InsertDesc(formats, Tail(sorted), i)

RECURSIVE SortDesc(_, _)
SortDesc(formats, cands) ==
    IF cands = <<>> THEN <<>>
    ELSE InsertDesc(formats,
                    SortDesc(formats, SubSeq(cands, 1, Len(cands) - 1)),
                    cands[Len(cands)])

\* The position of the selected entry in `formats`, 0 for None.
select_best_direct_format(formats) ==
    LET candidates == CandidatesFrom(formats, 1)
    IN  IF candidates = <<>> THEN 0
        ELSE Head(SortDesc(formats, candidates))

(***************************************************************************)
(* Outcome of a call: kind "ok" with a value, or the class of the exception *)
(* raised with its message (a sequence of text parts: the f-string pieces). *)
(***************************************************************************)
Ok(v) == [kind |-> "ok", msg |-> <<>>, value |-> v]
Raise(cls, m) == [kind |-> cls, msg |-> m, value |-> None]

\* An HTTP exchange as the clients see it: requests.get raising a
\* RequestException (text exc), a body that is not JSON, a JSON body that is
\* not an object, or a JSON object (data).
HttpTransport(exc) == [kind |-> "transport", exc |-> exc, data |-> None]
HttpNonJson == [kind |-> "nonjson", exc |-> "", data |-> None]
HttpNonObject == [kind |-> "nonobject", exc |-> "", data |-> None]
HttpObject(d) == [kind |-> "object", exc |-> "", data |-> Some(d)]

\* The `result` member of a response: absent, a truthy value that is no dict,
\* or a dict (fields).
ResultAbsent == [kind |-> "absent", fields |-> None]
ResultNonDict == [kind |-> "nondict", fields |-> None]
ResultDict(f) == [kind |-> "dict", fields |-> Some(f)]

(***************************************************************************)
(* upload_url_to_lulustream (src/bot.py:110-134).                          *)
(***************************************************************************)
\* A faulty variant of UploadTransportFault: the RequestException is not caught.
UploadTransportFaultUncaught(http) == Raise("RequestException", <<http.exc>>)

\* lines 119-122: requests.get raised
UploadTransportFault(http) ==
    Raise("RuntimeError", <<"Failed to reach LuluStream upload endpoint: ", http.exc>>)

upload_url_to_lulustream(video_url, lulu_key, http) ==
    IF lulu_key = ""
    THEN Raise("RuntimeError", <<"LuluStream API key is not configured.">>)
    ELSE IF http.kind = "transport"
    THEN UploadTransportFault(http)
    ELSE IF http.kind = "nonjson"
    THEN Raise("RuntimeError", <<"LuluStream upload response was not valid JSON.">>)
    ELSE IF http.kind = "nonobject"
    THEN \* line 128: data.get on a list, a string, a number
         Raise("AttributeError", <<"object has no attribute 'get'">>)
    ELSE LET result == http.data[1].result
         IN  IF result.kind # "dict"
             THEN Raise("RuntimeError", <<"LuluStream upload response missing 'result'.">>)
             ELSE LET r == result.fields[1]
                      filecode == IF TruthyStr(r.filecode) THEN r.filecode
                                  ELSE IF TruthyStr(r.file_code) THEN r.file_code
                                  ELSE r.fileCode
                  IN  IF ~TruthyStr(filecode)
                      THEN Raise("RuntimeError",
                                 <<"LuluStream upload response missing filecode.">>)
                      ELSE Ok(filecode[1])

(***************************************************************************)
(* get_file_info_from_lulustream (src/bot.py:137-160).                     *)
(***************************************************************************)
\* (data.get("result") or {}).get(name): None when `result` is absent, the
\* member when it is a dict; a truthy non-dict has no .get (fault TRUE).
NestedGet(data, name) ==
    IF data.result.kind = "absent" THEN [fault |-> FALSE, v |-> None]
    ELSE IF data.result.kind = "nondict" THEN [fault |-> TRUE, v |-> None]
    ELSE [fault |-> FALSE, v |-> data.result.fields[1][name]]

\* A faulty variant of LookupText: the nested member is never consulted.
LookupTextTopOnly(data, first, second, nested) ==
    IF TruthyText(data[first]) THEN [fault |-> FALSE, v |-> data[first]]
    ELSE [fault |-> FALSE, v |-> data[second]]

\* lines 155-157: data.get(first) or data.get(second) or <nested lookup>
LookupText(data, first, second, nested) ==
    IF TruthyText(data[first]) THEN [fault |-> FALSE, v |-> data[first]]
    ELSE IF TruthyText(data[second]) THEN [fault |-> FALSE, v |-> data[second]]
    ELSE NestedGet(data, nested)

LookupStr(data, first, second, nested) ==
    IF TruthyStr(data[first]) THEN [fault |-> FALSE, v |-> data[first]]
    ELSE IF TruthyStr(data[second]) THEN [fault |-> FALSE, v |-> data[second]]
    ELSE NestedGet(data, nested)

get_file_info_from_lulustream(file_code, lulu_key, http) ==
    IF lulu_key = ""
    THEN Raise("RuntimeError", <<"LuluStream API key is not configured.">>)
    ELSE IF http.kind = "transport"
    THEN Raise("RuntimeError",
               <<"Failed to reach LuluStream file/info endpoint: ", http.exc>>)
    ELSE IF http.kind = "nonjson"
    THEN Raise("RuntimeError", <<"LuluStream file/info response was not valid JSON.">>)
    ELSE IF http.kind = "nonobject"
    THEN Raise("AttributeError", <<"object has no attribute 'get'">>)
    ELSE LET data == http.data[1]
             file_title == LookupText(data, "file_title", "title", "file_title")
             player_img == LookupStr(data, "player_img", "thumbnail", "player_img")
             file_code_resp == LookupStr(data, "file_code", "filecode", "file_code")
         IN  IF file_title.fault \/ player_img.fault \/ file_code_resp.fault
             THEN Raise("AttributeError", <<"object has no attribute 'get'">>)
             ELSE IF ~(TruthyText(file_title.v) /\ TruthyStr(player_img.v)
                       /\ TruthyStr(file_code_resp.v))
             THEN Raise("RuntimeError",
                        <<"LuluStream file/info response missing required fields.">>)
             ELSE Ok([file_title |-> file_title.v[1],
                      player_img |-> player_img.v[1],
                      file_code |-> file_code_resp.v[1]])

(***************************************************************************)
(* extract_metadata_with_ytdlp (src/bot.py:86-107).  `ydl` is what         *)
(* YoutubeDL.extract_info does: raise DownloadError, raise something else, *)
(* return a non-dict, or return an info dict whose "formats" is absent or  *)
(* a list.                                                                 *)
(***************************************************************************)
YdlDownloadError(exc) == [kind |-> "DownloadError", exc |-> exc, formats |-> None]
YdlOtherError(exc) == [kind |-> "Exception", exc |-> exc, formats |-> None]
YdlNotDict == [kind |-> "notdict", exc |-> "", formats |-> None]
YdlInfo(formats) == [kind |-> "info", exc |-> "", formats |-> formats]

extract_metadata_with_ytdlp(url, ydl) ==
    IF ydl.kind = "DownloadError"
    THEN Raise("RuntimeError", <<"yt-dlp failed to extract info: ", ydl.exc>>)
    ELSE IF ydl.kind = "Exception"
    THEN Raise("RuntimeError", <<"yt-dlp extraction error: ", ydl.exc>>)
    ELSE IF ydl.kind = "notdict"
    THEN \* line 102 raises inside the try, line 106 wraps it again
         Raise("RuntimeError",
               <<"yt-dlp extraction error: ", "yt-dlp returned invalid metadata.">>)
    ELSE Ok(ydl.formats)

(***************************************************************************)
(* str.strip() of the message text (src/bot.py:183).                       *)
(***************************************************************************)
IsSpace(ch) == ch = " "

RECURSIVE LStrip(_)
LStrip(t) == IF t # <<>> /\ IsSpace(Head(t)) THEN LStrip(Tail(t)) ELSE t

RECURSIVE RStrip(_)
RStrip(t) ==
    IF t # <<>> /\ IsSpace(t[Len(t)]) THEN RStrip(SubSeq(t, 1, Len(t) - 1)) ELSE t

\* A faulty variant of Strip: the text is used as it came.
StripForgotten(t) == t

Strip(t) == RStrip(LStrip(t))

(***************************************************************************)
(* Input domains.                                                          *)
(***************************************************************************)
SeqsUpTo(S, n) == UNION {[1..k -> S] : k \in 0..n}

ExcTexts == {"E1", "E2"}           \* texts of the exceptions the outside raises
TextChars == {" ", "u", "/"}
Texts == SeqsUpTo(TextChars, MaxText)
UserIds == {0, 7, 8}
AdminIds == {None, Some(0), Some(7)}
LuluKeys == {"", "k"}

\* An update as the handler reads it: update.message (present or not),
\* update.message.text, update.effective_user.id.
Updates ==
    [has_message : BOOLEAN,
     text : {None} \cup {Some(t) : t \in Texts},
     sender : {None} \cup {Some(u) : u \in UserIds}]

NoUpdate == [has_message |-> FALSE, text |-> None, sender |-> None]

\* What the POST body is to webhook_entry.
BodyUnparsable == [kind |-> "unparsable", update |-> NoUpdate]
BodyFalsy == [kind |-> "falsy", update |-> NoUpdate]
BodyNotUpdate == [kind |-> "not_update", update |-> NoUpdate]
BodyUpdate(u) == [kind |-> "update", update |-> u]
Bodies ==
    {BodyUnparsable, BodyFalsy, BodyNotUpdate}
        \cup {BodyUpdate(u) : u \in {v \in Updates : v.text # None => v.has_message}}

\* Format lists the extractor hands back in a pass.
FmtAudio ==
    [isdict |-> TRUE, url |-> Some("a"), vcodec |-> Some("none"), height |-> None,
     tbr |-> None, filesize |-> None, filesize_approx |-> None]
FmtVideo ==
    [isdict |-> TRUE, url |-> Some("b"), vcodec |-> Some("h264"),
     height |-> Some(720), tbr |-> Some(500), filesize |-> None,
     filesize_approx |-> None]
YdlOutcomes ==
    {YdlDownloadError(e) : e \in ExcTexts} \cup {YdlOtherError(e) : e \in ExcTexts}
        \cup {YdlNotDict, YdlInfo(None), YdlInfo(Some(<<>>)),
              YdlInfo(Some(<<FmtAudio>>)), YdlInfo(Some(<<FmtAudio, FmtVideo>>)),
              YdlInfo(Some(<<NotADict, FmtVideo>>))}

\* Upload responses.
UploadFields(a, b, c) == [filecode |-> a, file_code |-> b, fileCode |-> c]
UploadData(r) == [result |-> r]
UploadHttps ==
    {HttpTransport(e) : e \in ExcTexts} \cup {HttpNonJson, HttpNonObject}
        \cup {HttpObject(UploadData(r)) :
                r \in {ResultAbsent, ResultNonDict}
                        \cup {ResultDict(UploadFields(a, b, c)) :
                                a \in {None, Some("abc123")},
                                b \in {None, Some("abc123")},
                                c \in {None, Some(""), Some("abc123")}}}

\* Info responses: every member is absent or present; the top-level primary
\* names may also hold an empty value.
InfoFields(ft, t, pi, th, fc, fcd) ==
    [file_title |-> ft, title |-> t, player_img |-> pi, thumbnail |-> th,
     file_code |-> fc, filecode |-> fcd]
InfoNested ==
    {ResultAbsent, ResultNonDict}
        \cup {ResultDict(InfoFields(ft, t, pi, th, fc, fcd)) :
                ft \in {None, Some(<<"n">>)}, t \in {None, Some(<<"m">>)},
                pi \in {None, Some("ni")}, th \in {None, Some("nt")},
                fc \in {None, Some("nc")}, fcd \in {None, Some("nd")}}
InfoDatas ==
    {[file_title |-> ft, title |-> t, player_img |-> pi, thumbnail |-> th,
      file_code |-> fc, filecode |-> fcd, result |-> r] :
        ft \in {None, Some(<<>>), Some(<<"p">>)}, t \in {None, Some(<<"a">>)},
        pi \in {None, Some(""), Some("pi")}, th \in {None, Some("pt")},
        fc \in {None, Some(""), Some("pc")}, fcd \in {None, Some("pd")},
        r \in InfoNested}
InfoHttps ==
    {HttpTransport(e) : e \in ExcTexts} \cup {HttpNonJson, HttpNonObject}
        \cup {HttpObject(d) : d \in InfoDatas}

\* The info responses a pass is run against: the three members all at the
\* top level, all nested, all nested under the alias names, or all missing,
\* and a `result` that is no dict.
DemoTitle == <<"D", "e", "m", "o", ".", "\\", "!">>
InfoAllTop ==
    [file_title |-> Some(DemoTitle), title |-> None, player_img |-> None,
     thumbnail |-> Some("https://img/demo.jpg"), file_code |-> Some("abc123"),
     filecode |-> None, result |-> ResultAbsent]
InfoEmpty ==
    [file_title |-> None, title |-> None, player_img |-> None, thumbnail |-> None,
     file_code |-> None, filecode |-> None, result |-> ResultAbsent]
InfoAllNested ==
    [InfoEmpty EXCEPT !.result =
        ResultDict(InfoFields(Some(DemoTitle), None, Some("https://img/demo.jpg"),
                              None, Some("abc123"), None))]
InfoAllNestedAlias ==
    [InfoEmpty EXCEPT !.result =
        ResultDict(InfoFields(None, Some(DemoTitle), None,
                              Some("https://img/demo.jpg"), None, Some("abc123")))]
InfoBadResult == [InfoEmpty EXCEPT !.result = ResultNonDict]
PassInfoHttps ==
    {HttpTransport(e) : e \in ExcTexts} \cup {HttpNonJson, HttpNonObject}
        \cup {HttpObject(d) :
                d \in {InfoAllTop, InfoEmpty, InfoAllNested, InfoAllNestedAlias,
                       InfoBadResult}}

\* Titles handed to _escape_markdown_v2 on its own.
TitleChars == {"a", "_", ".", Backslash}
Titles == SeqsUpTo(TitleChars, MaxTitle)

\* Format descriptors handed to the selector on its own: every combination
\* of the numeric members on an entry with a URL and a video codec; an entry
\* without a URL, without a codec or with the codec "none" comes bare and
\* with all its numeric members set.
NumericMembers ==
    [height : {None, Some(1)}, tbr : {None, Some(1)}, filesize : {None, Some(1)},
     filesize_approx : {None, Some(2)}]
Descriptor(url, vcodec, n) ==
    [isdict |-> TRUE, url |-> url, vcodec |-> vcodec, height |-> n.height,
     tbr |-> n.tbr, filesize |-> n.filesize, filesize_approx |-> n.filesize_approx]
Descriptors ==
    {NotADict}
        \cup {Descriptor(Some("u"), Some("h264"), n) : n \in NumericMembers}
        \cup {Descriptor(u, v, n) :
                u \in {None, Some("u")}, v \in {None, Some("none")},
                n \in {m \in NumericMembers :
                         \/ \A k \in DOMAIN m : m[k] = None
                         \/ \A k \in DOMAIN m : m[k] # None}}
        \cup {Descriptor(None, Some("h264"), n) :
                n \in {m \in NumericMembers : \A k \in DOMAIN m : m[k] # None}}
FormatLists == SeqsUpTo(Descriptors, MaxFormats)

(***************************************************************************)
(* State.                                                                  *)
(***************************************************************************)
VARIABLES
    ADMIN_USER_ID,  \* bot.py:24-30, None or Some(id)
    LULU_KEY,       \* bot.py:32
    body,           \* the body of the POST being served
    update,         \* the Update built from it
    pc,             \* where the request is
    replies,        \* update.message.reply_text calls so far: [text, ok]
    photos,         \* context.bot.send_photo calls so far
    calls,          \* extractor / upload / info / photo calls so far
    direct_url,     \* locals of _handle_admin_message
    file_code,
    info_resp,
    handler_exit,   \* "none", "returned", or "raised" (a fault left the handler)
    invoked,        \* app.process_update was called
    response,       \* None or Some([status, text]) of webhook_entry
    fin,            \* argument and result of a function run on its own
    fout

vars ==
    <<ADMIN_USER_ID, LULU_KEY, body, update, pc, replies, photos, calls, direct_url,
      file_code, info_resp, handler_exit, invoked, response, fin, fout>>

config == <<ADMIN_USER_ID, LULU_KEY>>
locals == <<direct_url, file_code, info_resp>>
pure == <<fin, fout>>

(***************************************************************************)
(* Reply texts of _handle_admin_message, as sequences of parts.            *)
(***************************************************************************)
UsagePrompt == <<"Please send a valid video page URL or a direct video URL.">>
ProcessingNotice == <<"Processing URL - extracting metadata (no download).">>
NoFormatNotice ==
    <<"No valid direct video URL (format with video codec) found in metadata.">>
NoUrlNotice == <<"Selected format did not contain a direct URL.">>
UnexpectedNotice == <<"An unexpected error occurred. Check server logs for details.">>
ExtractionPrefix == "Metadata extraction failed: "
UploadPrefix == "LuluStream upload failed: "
InfoPrefix == "Failed to retrieve file info from LuluStream: "
PhotoPrefix == "Failed to send result photo: "

\* line 228
Caption(title, code) ==
    <<"[film] ">> \o _escape_markdown_v2(title)
        \o <<"\n\n[play] Watch: https://lulustream.com/", code>>

(***************************************************************************)
(* Guards of _handle_admin_message.                                        *)
(***************************************************************************)
\* line 175, negated
IsTextMessage(u) == u.has_message /\ u.text # None

\* A faulty variant of IsAdmin: an unconfigured administrator lets everyone in.
IsAdminOpenWhenUnset(u, admin) ==
    u.sender # None /\ (admin = None \/ u.sender[1] = admin[1])

\* line 179, negated
IsAdmin(u, admin) == u.sender # None /\ admin # None /\ u.sender[1] = admin[1]

\* line 244: `ADMIN_USER_ID and ...` is false for None and for 0
NotifiesOnFault(u, admin) ==
    u.has_message /\ u.sender # None /\ TruthyNum(admin) /\ u.sender[1] = admin[1]

\* filters.TEXT & ~filters.COMMAND of the one registered handler (line 258)
HandlerFilter(u) ==
    /\ u.has_message
    /\ u.text # None
    /\ u.text[1] # <<>>
    /\ Head(u.text[1]) # "/"

(***************************************************************************)
(* webhook_entry (src/api/webhook.py:38-73).                               *)
(***************************************************************************)
Respond(status, text) == response' = Some([status |-> status, text |-> text])

\* A faulty variant of ProcessedStatus: a fault in process_update answers 500.
ProcessedStatusLeaky(raised) == IF raised THEN 500 ELSE 200

\* lines 65-73: the status once process_update was called
ProcessedStatus(raised) == IF raised THEN 200 ELSE 200

\* lines 48-59: parse the body and build the Update, or answer 400
Post ==
    /\ pc = "idle"
    /\ \E b \in Bodies :
        /\ body' = Some(b)
        /\ IF b.kind = "unparsable"
           THEN Respond(400, "Invalid JSON") /\ pc' = "responded"
                    /\ UNCHANGED <<update, invoked>>
           ELSE IF b.kind = "falsy"
           THEN Respond(400, "Empty body") /\ pc' = "responded"
                    /\ UNCHANGED <<update, invoked>>
           ELSE IF b.kind = "not_update"
           THEN Respond(400, "Failed to parse Telegram Update") /\ pc' = "responded"
                    /\ UNCHANGED <<update, invoked>>
           ELSE /\ update' = b.update
                /\ invoked' = TRUE
                /\ pc' = "process_update"
                /\ UNCHANGED response
    /\ UNCHANGED <<config, replies, photos, calls, locals, handler_exit, pure>>

\* line 64: Application.process_update hands the update to the handler when
\* its filter accepts it.
ProcessUpdate ==
    /\ pc = "process_update"
    /\ pc' = IF HandlerFilter(update) THEN "handler" ELSE "skipped"
    /\ UNCHANGED <<config, body, update, replies, photos, calls, locals,
                   handler_exit, invoked, response, pure>>

\* lines 62-73: process_update is over (it may itself have raised); both
\* ways the answer is 200.
Finish ==
    /\ pc \in {"skipped", "returned", "raised"}
    /\ handler_exit' = IF pc = "skipped" THEN "none" ELSE pc
    /\ \E raised \in BOOLEAN :
        Respond(ProcessedStatus(raised),
                IF raised THEN "Processed with internal errors" ELSE "OK")
    /\ pc' = "responded"
    /\ UNCHANGED <<config, body, update, replies, photos, calls, locals, invoked,
                   pure>>

(***************************************************************************)
(* _handle_admin_message (src/bot.py:163-246), one action per stretch of   *)
(* code that ends in an external call and the replies that follow it.      *)
(***************************************************************************)
\* await update.message.reply_text(text), then go on at `next`; the send
\* may raise, which the outermost handler (line 242) catches.
ReplyText(text, next) ==
    \E ok \in BOOLEAN :
        /\ replies' = Append(replies, [text |-> text, ok |-> ok])
        /\ pc' = IF ok THEN next ELSE "except"

Called(stage, input, result) ==
    calls' = Append(calls, [stage |-> stage, input |-> input, result |-> result])

\* lines 174-188
HandleStart ==
    /\ pc = "handler"
    /\ IF ~IsTextMessage(update) \/ ~IsAdmin(update, ADMIN_USER_ID)
       THEN pc' = "returned" /\ UNCHANGED replies
       ELSE IF Strip(update.text[1]) = <<>>
       THEN ReplyText(UsagePrompt, "returned")
       ELSE ReplyText(ProcessingNotice, "extract")
    /\ UNCHANGED <<config, body, update, photos, calls, locals, handler_exit,
                   invoked, response, pure>>

\* lines 190-206
HandleExtract ==
    /\ pc = "extract"
    /\ \E ydl \in YdlOutcomes :
        LET r == extract_metadata_with_ytdlp(Strip(update.text[1]), ydl)
            formats == IF r.kind = "ok" /\ r.value # None THEN r.value[1] ELSE <<>>
            best == select_best_direct_format(formats)
        IN  /\ Called("extract", ydl.kind, r.kind)
            /\ IF r.kind = "RuntimeError"
               THEN ReplyText(<<ExtractionPrefix>> \o r.msg, "returned")
                        /\ UNCHANGED direct_url
               ELSE IF best = 0
               THEN ReplyText(NoFormatNotice, "returned") /\ UNCHANGED direct_url
               ELSE IF ~TruthyStr(formats[best].url)
               THEN ReplyText(NoUrlNotice, "returned") /\ UNCHANGED direct_url
               ELSE /\ direct_url' = formats[best].url
                    /\ pc' = "upload"
                    /\ UNCHANGED replies
    /\ UNCHANGED <<config, body, update, photos, file_code, info_resp,
                   handler_exit, invoked, response, pure>>

\* lines 208-213
HandleUpload ==
    /\ pc = "upload"
    /\ \E http \in UploadHttps :
        LET r == upload_url_to_lulustream(direct_url[1], LULU_KEY, http)
        IN  /\ Called("upload", http.kind, r.kind)
            /\ IF r.kind = "RuntimeError"
               THEN ReplyText(<<UploadPrefix>> \o r.msg, "returned")
                        /\ UNCHANGED file_code
               ELSE IF r.kind # "ok"
               THEN pc' = "except" /\ UNCHANGED <<replies, file_code>>
               ELSE /\ file_code' = Some(r.value)
                    /\ pc' = "info"
                    /\ UNCHANGED replies
    /\ UNCHANGED <<config, body, update, photos, direct_url, info_resp,
                   handler_exit, invoked, response, pure>>

\* lines 215-224
HandleInfo ==
    /\ pc = "info"
    /\ \E http \in PassInfoHttps :
        LET r == get_file_info_from_lulustream(file_code[1], LULU_KEY, http)
        IN  /\ Called("info", http.kind, r.kind)
            /\ IF r.kind = "RuntimeError"
               THEN ReplyText(<<InfoPrefix>> \o r.msg, "returned")
                        /\ UNCHANGED info_resp
               ELSE IF r.kind # "ok"
               THEN pc' = "except" /\ UNCHANGED <<replies, info_resp>>
               ELSE /\ info_resp' = Some(r.value)
                    /\ pc' = "photo"
                    /\ UNCHANGED replies
    /\ UNCHANGED <<config, body, update, photos, direct_url, file_code,
                   handler_exit, invoked, response, pure>>

\* lines 226-240: send_photo either works or raises (text exc)
HandlePhoto ==
    /\ pc = "photo"
    /\ \E exc \in {""} \cup ExcTexts :
        /\ Called("photo", "send_photo", IF exc = "" THEN "ok" ELSE "Exception")
        /\ photos' =
              Append(photos,
                     [chat_id |-> ADMIN_USER_ID, photo |-> info_resp[1].player_img,
                      caption |-> Caption(info_resp[1].file_title,
                                          info_resp[1].file_code),
                      parse_mode |-> "MarkdownV2", ok |-> exc = ""])
        /\ IF exc = ""
           THEN pc' = "returned" /\ UNCHANGED replies
           ELSE ReplyText(<<PhotoPrefix, exc>>, "returned")
    /\ UNCHANGED <<config, body, update, locals, handler_exit, invoked, response,
                   pure>>

\* lines 242-246: the outermost handler; a raise of its own reply_text is
\* not caught by anything in the function.
HandleExcept ==
    /\ pc = "except"
    /\ IF NotifiesOnFault(update, ADMIN_USER_ID)
       THEN \E ok \in BOOLEAN :
               /\ replies' = Append(replies, [text |-> UnexpectedNotice, ok |-> ok])
               /\ pc' = IF ok THEN "returned" ELSE "raised"
       ELSE pc' = "returned" /\ UNCHANGED replies
    /\ UNCHANGED <<config, body, update, photos, calls, locals, handler_exit,
                   invoked, response, pure>>

(***************************************************************************)
(* The service: one POST from construction to its response.                *)
(***************************************************************************)
Init ==
    /\ ADMIN_USER_ID \in AdminIds
    /\ LULU_KEY \in LuluKeys
    /\ body = None
    /\ update = NoUpdate
    /\ pc = "idle"
    /\ replies = <<>>
    /\ photos = <<>>
    /\ calls = <<>>
    /\ direct_url = None
    /\ file_code = None
    /\ info_resp = None
    /\ handler_exit = "none"
    /\ invoked = FALSE
    /\ response = None
    /\ fin = None
    /\ fout = None

Next ==
    \/ Post
    \/ ProcessUpdate
    \/ HandleStart
    \/ HandleExtract
    \/ HandleUpload
    \/ HandleInfo
    \/ HandlePhoto
    \/ HandleExcept
    \/ Finish

Spec == Init /\ [][Next]_vars

(***************************************************************************)
(* The pure functions run on their own: the argument is drawn in the       *)
(* initial state, one action applies the function.                         *)
(***************************************************************************)
InitPure(at) ==
    /\ ADMIN_USER_ID = None
    /\ LULU_KEY = ""
    /\ body = None
    /\ update = NoUpdate
    /\ pc = at
    /\ replies = <<>>
    /\ photos = <<>>
    /\ calls = <<>>
    /\ direct_url = None
    /\ file_code = None
    /\ info_resp = None
    /\ handler_exit = "none"
    /\ invoked = FALSE
    /\ response = None
    /\ fout = None

Apply(from, to, result) ==
    /\ pc = from
    /\ pc' = to
    /\ fout' = Some(result)
    /\ UNCHANGED <<config, body, update, replies, photos, calls, locals,
                   handler_exit, invoked, response, fin>>

InitSelect == InitPure("select") /\ fin \in FormatLists
Select == Apply("select", "selected", select_best_direct_format(fin))
SpecSelect == InitSelect /\ [][Select]_vars

InitEscape == InitPure("escape") /\ fin \in Titles
Escape == Apply("escape", "escaped", _escape_markdown_v2(fin))
SpecEscape == InitEscape /\ [][Escape]_vars

InitInfo ==
    InitPure("get_info") /\ fin \in [key : LuluKeys, http : InfoHttps]
GetInfo ==
    Apply("get_info", "got_info",
          get_file_info_from_lulustream("abc123", fin.key, fin.http))
SpecInfo == InitInfo /\ [][GetInfo]_vars

(***************************************************************************)
(* Properties.                                                             *)
(***************************************************************************)
PassOver == pc \in {"returned", "raised", "responded"} /\ invoked

\* _handle_admin_message was entered and is over
HandlerOver ==
    pc \in {"returned", "raised"} \/ (pc = "responded" /\ handler_exit # "none")

HandlerRaised == pc = "raised" \/ handler_exit = "raised"

RECURSIVE CountReplies(_, _)
CountReplies(rs, prefix) ==
    IF rs = <<>> THEN 0
    ELSE (IF Head(Head(rs).text) = prefix THEN 1 ELSE 0)
            + CountReplies(Tail(rs), prefix)

StagesCalled == {calls[i].stage : i \in DOMAIN calls}

SenderIsAdministrator ==
    /\ ADMIN_USER_ID # None
    /\ update.sender # None
    /\ update.sender[1] = ADMIN_USER_ID[1]

\* ---- C1 ----------------------------------------------------------------
Qualifies(f) ==
    /\ f.isdict
    /\ f.url # None /\ f.url[1] # ""
    /\ f.vcodec # None /\ f.vcodec[1] \notin {"", "none"}

NumOrZero(x) == IF x = None THEN 0 ELSE x[1]

\* (height, bitrate, filesize), a missing field counted as zero
PlainKey(f) == <<NumOrZero(f.height), NumOrZero(f.tbr), NumOrZero(f.filesize)>>

\* the same with filesize_approx standing in for a missing or zero filesize
ApproxKey(f) ==
    <<NumOrZero(f.height), NumOrZero(f.tbr),
      IF NumOrZero(f.filesize) # 0 THEN f.filesize[1]
      ELSE NumOrZero(f.filesize_approx)>>

LexLess(a, b) ==
    \E k \in 1..3 : a[k] < b[k] /\ \A j \in 1..(k - 1) : a[j] = b[j]

\* position `best` is the first qualifying entry of `formats` with a maximal key
FirstMaximal(formats, best, Key(_)) ==
    /\ best \in DOMAIN formats
    /\ Qualifies(formats[best])
    /\ \A j \in DOMAIN formats :
          Qualifies(formats[j]) =>
              /\ ~LexLess(Key(formats[best]), Key(formats[j]))
              /\ j < best => LexLess(Key(formats[j]), Key(formats[best]))

\* C1 as stated: whenever some entry of the list has a URL and a codec other
\* than "none", select_best_direct_format returns the first entry that
\* maximizes (height, bitrate, filesize), missing fields counted as zero.
C1_SelectsFirstMaximalPlain ==
    (pc = "selected" /\ \E j \in DOMAIN fin : Qualifies(fin[j]))
        => FirstMaximal(fin, fout[1], PlainKey)

\* C1 amended: the third component of the key is filesize, or filesize_approx
\* when filesize is missing or zero; with that key the selector returns the
\* first qualifying entry of maximal key.
C1_SelectsFirstMaximalApprox ==
    (pc = "selected" /\ \E j \in DOMAIN fin : Qualifies(fin[j]))
        => FirstMaximal(fin, fout[1], ApproxKey)

\* two qualifying entries tie on the key and the earlier one was returned
C1_Witness ==
    /\ pc = "selected"
    /\ \E i, j \in DOMAIN fin :
          /\ i < j
          /\ Qualifies(fin[i]) /\ Qualifies(fin[j])
          /\ ApproxKey(fin[i]) = ApproxKey(fin[j])
          /\ fin[i].filesize = None /\ fin[i].filesize_approx # None
          /\ fout[1] = i

\* ---- C2 ----------------------------------------------------------------
\* C2: a text message whose sender is not the configured administrator, or
\* that arrives with no administrator configured, leads to no reply, no
\* photo and no extractor / upload / info call, at any point of the pass.
C2_NonAdminSilent ==
    (invoked /\ IsTextMessage(update) /\ ~SenderIsAdministrator)
        => replies = <<>> /\ photos = <<>> /\ calls = <<>>

\* the handler ran on a non-administrator's text message and returned
C2_Witness ==
    /\ pc = "responded"
    /\ handler_exit = "returned"
    /\ update.sender # None
    /\ ~SenderIsAdministrator
    /\ replies = <<>>

\* ---- C3 ----------------------------------------------------------------
BodyRejected == body[1].kind \in {"unparsable", "falsy", "not_update"}

\* C3: the POST is answered 400 only for a body that cannot be parsed, is
\* empty or cannot be made an Update, and then process_update was never
\* called; every other POST is answered 200, also when process_update raised.
C3_WebhookStatus ==
    response # None =>
        /\ response[1].status = 400 <=> BodyRejected
        /\ response[1].status = 400 => ~invoked
        /\ ~BodyRejected => response[1].status = 200 /\ invoked

\* process_update raised, after the handler itself let a fault out
C3_Witness ==
    /\ response # None
    /\ response[1].text = "Processed with internal errors"
    /\ handler_exit = "raised"

\* ---- C4 ----------------------------------------------------------------
\* C4: no fault leaves _handle_admin_message, whichever step raised it (a
\* reply send in a failure branch and the generic notice included), and the
\* generic notice goes out only when the sender is the administrator.
C4_HandlerNeverRaises ==
    /\ pc # "raised"
    /\ \A i \in DOMAIN replies :
          replies[i].text = UnexpectedNotice => SenderIsAdministrator

\* ---- C5 ----------------------------------------------------------------
UploadTransportFailed ==
    \E i \in DOMAIN calls :
        calls[i].stage = "upload" /\ calls[i].input = "transport"

\* C5: when the upload client's HTTP call raised a transport error, exactly
\* one reply naming the upload stage was sent, the info call was never made
\* and no photo was sent.
C5_UploadTransportError ==
    UploadTransportFailed =>
        /\ CountReplies(replies, UploadPrefix) = 1
        /\ "info" \notin StagesCalled
        /\ photos = <<>>

\* the pass ended after such an upload, its report delivered
C5_Witness ==
    /\ pc = "responded"
    /\ UploadTransportFailed
    /\ replies[Len(replies)].ok
    /\ Head(replies[Len(replies)].text) = UploadPrefix

\* ---- C6 ----------------------------------------------------------------
InfoAnswered ==
    pc = "got_info" /\ fin.key # "" /\ fin.http.kind = "object"

InfoData == fin.http.data[1]

\* the title is a text (empty: <<>>), the other two are strings (empty: "")
EmptyOf(name) == IF name \in {"file_title", "title"} THEN <<>> ELSE ""

NonEmpty(members, name) == members[name] # None /\ members[name][1] # EmptyOf(name)

\* the non-empty values under `names` at the top level of the response
TopValues(names) == {InfoData[n][1] : n \in {m \in names : NonEmpty(InfoData, m)}}

\* the non-empty values under `names` inside a `result` object
NestedValues(names) ==
    IF InfoData.result.kind # "dict" THEN {}
    ELSE {InfoData.result.fields[1][n][1] :
            n \in {m \in names : NonEmpty(InfoData.result.fields[1], m)}}

MissingFields ==
    /\ fout[1].kind = "RuntimeError"
    /\ fout[1].msg = <<"LuluStream file/info response missing required fields.">>

\* the call succeeded with each member of the triple taken from its values
ReturnsFrom(titles, images, codes) ==
    /\ fout[1].kind = "ok"
    /\ fout[1].value.file_title \in titles
    /\ fout[1].value.player_img \in images
    /\ fout[1].value.file_code \in codes

TitleNames == {"file_title", "title"}
ImageNames == {"player_img", "thumbnail"}
CodeNames == {"file_code", "filecode"}

\* C6 as stated: the info call succeeds with the triple whenever each of the
\* three members is non-empty under any of its names at the top level or
\* inside `result`, and fails with "missing required fields" exactly when one
\* of them is empty in all those places.  (Stated for a response whose
\* `result` is absent or an object.)
C6_AnyAliasAnywhere ==
    (InfoAnswered /\ InfoData.result.kind # "nondict") =>
        LET titles == TopValues(TitleNames) \cup NestedValues(TitleNames)
            images == TopValues(ImageNames) \cup NestedValues(ImageNames)
            codes == TopValues(CodeNames) \cup NestedValues(CodeNames)
            all == titles # {} /\ images # {} /\ codes # {}
        IN  /\ all => ReturnsFrom(titles, images, codes)
            /\ MissingFields <=> ~all

\* C6 amended: inside `result` only the names file_title, player_img and
\* file_code are read.  The call succeeds with the triple exactly when each
\* member is non-empty under either name at the top level or under that one
\* name inside a `result` object; otherwise it fails, with "missing required
\* fields" unless `result` is a non-empty value that is no object, where the
\* failure is an AttributeError.
C6_AliasTopPrimaryNested ==
    InfoAnswered =>
        LET titles == TopValues(TitleNames) \cup NestedValues({"file_title"})
            images == TopValues(ImageNames) \cup NestedValues({"player_img"})
            codes == TopValues(CodeNames) \cup NestedValues({"file_code"})
            all == titles # {} /\ images # {} /\ codes # {}
        IN  /\ all <=> fout[1].kind = "ok"
            /\ all => ReturnsFrom(titles, images, codes)
            /\ MissingFields <=> (~all /\ InfoData.result.kind # "nondict")
            /\ fout[1].kind = "AttributeError"
                   <=> (~all /\ InfoData.result.kind = "nondict")

\* the title came from the alias at the top level, the other two from `result`
C6_Witness ==
    /\ InfoAnswered
    /\ fout[1].kind = "ok"
    /\ InfoData.file_title = None /\ InfoData.title # None
    /\ ~NonEmpty(InfoData, "player_img") /\ InfoData.thumbnail = None
    /\ ~NonEmpty(InfoData, "file_code") /\ InfoData.filecode = None

\* ---- C7 ----------------------------------------------------------------
TextParts(text) == {text[i] : i \in DOMAIN text}

\* C7: no reply carries the text of an exception: the replies sent on a
\* failed extraction, upload, info call or photo send do not depend on it.
C7_NoExceptionTextInReplies ==
    \A i \in DOMAIN replies : TextParts(replies[i].text) \cap ExcTexts = {}

\* ---- C8 ----------------------------------------------------------------
OnlyWhitespace(t) == \A i \in DOMAIN t : t[i] = " "

BlankFromAdministrator ==
    /\ HandlerOver
    /\ IsTextMessage(update)
    /\ SenderIsAdministrator
    /\ OnlyWhitespace(update.text[1])

NoExternalCall == calls = <<>> /\ photos = <<>>

\* C8 as stated: an administrator's message of nothing but whitespace gets
\* exactly one reply, the usage prompt, and no external call is made.
\* (Stated for the passes the handler returns from.)
C8_ExactlyOneUsageReply ==
    (BlankFromAdministrator /\ ~HandlerRaised) =>
        /\ Len(replies) = 1
        /\ replies[1].text = UsagePrompt
        /\ NoExternalCall

\* C8 amended: the first reply is the usage prompt and no external call is
\* made; it is the only reply when its send goes through.  When that send
\* raises, the outermost handler adds the generic notice (for every
\* administrator identity but 0) and nothing else.
C8_UsageReplyThenNotice ==
    BlankFromAdministrator =>
        /\ Len(replies) >= 1
        /\ replies[1].text = UsagePrompt
        /\ NoExternalCall
        /\ replies[1].ok => Len(replies) = 1
        /\ ~replies[1].ok =>
              IF ADMIN_USER_ID[1] = 0 THEN Len(replies) = 1
              ELSE Len(replies) = 2 /\ replies[2].text = UnexpectedNotice

\* the usage prompt could not be sent and the generic notice followed
C8_Witness ==
    /\ BlankFromAdministrator
    /\ pc = "responded"
    /\ Len(replies) = 2
    /\ ~replies[1].ok
    /\ replies[2].ok

\* ---- C10 ---------------------------------------------------------------
StageOrder == <<"extract", "upload", "info", "photo">>

StagePrefix(stage) ==
    CASE stage = "extract" -> ExtractionPrefix
      [] stage = "upload" -> UploadPrefix
      [] stage = "info" -> InfoPrefix
      [] stage = "photo" -> PhotoPrefix

\* C10: the external calls of a pass are made in the order extraction,
\* upload, info, photo, each at most once and only after the one before it
\* succeeded (the upload only with a selected URL); a failed stage is the
\* last one called, and the pass ends after a reply with that stage's
\* diagnostic.
C10_StagesInOrderWithDiagnostic ==
    /\ Len(calls) <= Len(StageOrder)
    /\ \A i \in DOMAIN calls :
          /\ calls[i].stage = StageOrder[i]
          /\ i < Len(calls) => calls[i].result = "ok"
          /\ calls[i].stage = "upload" => direct_url # None
          /\ (PassOver /\ calls[i].result # "ok") =>
                CountReplies(replies, StagePrefix(calls[i].stage)) = 1

\* ---- C9 ----------------------------------------------------------------
\* C9: stripping the escape markers from the output of _escape_markdown_v2
\* gives back the title, also for a title that holds the escape marker.
C9_EscapeRoundTrip ==
    pc = "escaped" => StripEscapes(fout[1]) = fin

=============================================================================
